---- MODULE Spec2Model ----
(***************************************************************************)
(* Model of the GitHub OAuth client, components/net/src/oauth/github.rs:   *)
(* GitHubClient::authenticate, GitHubClient::user, GitHubClient::emails,   *)
(* AuthOk::has_scope and the http_get / http_post helpers.                  *)
(*                                                                         *)
(* Strings that the code inspects character by character (JSON string      *)
(* values, scope lists) are sequences of one-character strings.  A JSON    *)
(* body is a record: an object (a function from keys to JSON values), an   *)
(* array of objects, text that is not JSON, or a body whose read fails.    *)
(***************************************************************************)
EXTENDS Integers, Sequences, FiniteSets, TLC

VARIABLES client, pc, op, arg, request, wire, rep, bodyRead, decoded, result,
          hs_scope, hs_grant, hs_done, hs_result

vars == <<client, pc, op, arg, request, wire, rep, bodyRead, decoded, result,
          hs_scope, hs_grant, hs_done, hs_result>>

(***************************************************************************)
(* Bounds                                                                  *)
(***************************************************************************)
\* most requests one call may put on the wire before the model stops it
MaxSends == 2
\* most scope names in the scope list of a token-exchange body
MaxScopes == 2
\* longest scope / grant string given to has_scope on its own
MaxLen == 3

(***************************************************************************)
(* JSON values                                                             *)
(***************************************************************************)
JStr(s) == [type |-> "string", str |-> s]
JNum == [type |-> "number", str |-> <<>>]
JBool == [type |-> "boolean", str |-> <<>>]
JNull == [type |-> "null", str |-> <<>>]
Absent == [type |-> "absent", str |-> <<>>]

EmptyObj == [k \in {} |-> JNull]

ObjectBody(o) == [kind |-> "object", obj |-> o, arr |-> <<>>]
ArrayBody(a) == [kind |-> "array", obj |-> EmptyObj, arr |-> a]
TextBody == [kind |-> "text", obj |-> EmptyObj, arr |-> <<>>]
UnreadableBody == [kind |-> "unreadable", obj |-> EmptyObj, arr |-> <<>>]

(***************************************************************************)
(* Strings of the program                                                   *)
(***************************************************************************)
USER_AGENT == "Habitat-Builder"
RequiredScope == <<"u", "s", "e", "r", ":", "e", "m", "a", "i", "l">>

s_user_email == <<"u", "s", "e", "r", ":", "e", "m", "a", "i", "l">>
s_user_emailx == <<"u", "s", "e", "r", ":", "e", "m", "a", "i", "l", "x">>
s_user == <<"u", "s", "e", "r">>
s_repo == <<"r", "e", "p", "o">>
s_abc == <<"a", "b", "c">>
s_bearer == <<"b", "e", "a", "r", "e", "r">>
s_bad_code == <<"b", "a", "d">>
s_text == <<"t">>

(***************************************************************************)
(* AuthOk::has_scope: self.scope.split(",") ... .any(|&p| p == grant)      *)
(***************************************************************************)
RECURSIVE Split(_, _)
Split(s, sep) ==
    IF \E i \in 1..Len(s) : s[i] = sep
    THEN LET i == CHOOSE i \in 1..Len(s) :
                      /\ s[i] = sep
                      /\ \A j \in 1..(i - 1) : s[j] # sep
         IN  <<SubSeq(s, 1, i - 1)>> \o Split(SubSeq(s, i + 1, Len(s)), sep)
    ELSE <<s>>

\* a plausible slip: the grant is looked for anywhere in the scope string
has_scope_substring(scope, grant) ==
    \E i \in 1..(Len(scope) + 1) :
        /\ i + Len(grant) - 1 <= Len(scope)
        /\ SubSeq(scope, i, i + Len(grant) - 1) = grant

has_scope(scope, grant) ==
    LET parts == Split(scope, ",")
    IN  \E i \in 1..Len(parts) : parts[i] = grant

(***************************************************************************)
(* Decoding (json::decode into the RustcDecodable structs)                  *)
(***************************************************************************)
Req(t) == [type |-> t, optional |-> FALSE]
Opt(t) == [type |-> t, optional |-> TRUE]

\* struct AuthOk
AuthOkFields ==
    [access_token |-> Req("string"), scope |-> Req("string"),
     token_type |-> Req("string")]

\* struct AuthErr
AuthErrFields ==
    [error |-> Req("string"), error_description |-> Req("string"),
     error_uri |-> Req("string")]

\* struct Email
EmailFields ==
    [email |-> Req("string"), primary |-> Req("boolean"),
     verified |-> Req("boolean")]

\* struct User
UserFields ==
    [login |-> Req("string"), id |-> Req("number"),
     avatar_url |-> Req("string"), gravatar_id |-> Req("string"),
     url |-> Req("string"), html_url |-> Req("string"),
     followers_url |-> Req("string"), following_url |-> Req("string"),
     gists_url |-> Req("string"), starred_url |-> Req("string"),
     subscriptions_url |-> Req("string"),
     organizations_url |-> Req("string"), repos_url |-> Req("string"),
     events_url |-> Req("string"), received_events_url |-> Req("string"),
     site_admin |-> Req("boolean"),
     name |-> Opt("string"), company |-> Opt("string"),
     blog |-> Opt("string"), location |-> Opt("string"),
     email |-> Opt("string"), hireable |-> Opt("boolean"),
     bio |-> Opt("string"),
     public_repos |-> Req("number"), public_gists |-> Req("number"),
     followers |-> Req("number"), following |-> Req("number"),
     created_at |-> Req("string"), updated_at |-> Req("string")]

\* one field of a struct: a missing or null Option field is None, a missing
\* required field or a value of another type is a decoder error
FieldOk(o, fields, k) ==
    IF k \in DOMAIN o
    THEN \/ o[k].type = fields[k].type
         \/ fields[k].optional /\ o[k].type = "null"
    ELSE fields[k].optional

FieldValue(o, k) == IF k \in DOMAIN o THEN o[k] ELSE JNull

\* keys of the object that the struct does not declare are ignored
DecodeObject(o, fields) ==
    [ok |-> \A k \in DOMAIN fields : FieldOk(o, fields, k),
     val |-> [k \in DOMAIN fields |-> FieldValue(o, k)]]

DecodeStruct(body, fields) ==
    IF body.kind = "object"
    THEN DecodeObject(body.obj, fields)
    ELSE [ok |-> FALSE, val |-> EmptyObj]

\* a plausible slip: fields missing from the body default to empty strings
DecodeAuthErr_defaulting(body) ==
    IF body.kind = "object"
    THEN [ok |-> \A k \in DOMAIN AuthErrFields :
                    k \in DOMAIN body.obj => body.obj[k].type = "string",
          val |-> [k \in DOMAIN AuthErrFields |->
                      IF k \in DOMAIN body.obj THEN body.obj[k]
                      ELSE JStr(<<>>)]]
    ELSE [ok |-> FALSE, val |-> EmptyObj]

DecodeAuthOk(body) == DecodeStruct(body, AuthOkFields)
DecodeAuthErr(body) == DecodeStruct(body, AuthErrFields)
DecodeUser(body) == DecodeStruct(body, UserFields)

\* Vec<Email>
DecodeEmails(body) ==
    IF body.kind = "array"
    THEN [ok |-> \A i \in 1..Len(body.arr) :
                    DecodeObject(body.arr[i], EmailFields).ok,
          val |-> [i \in 1..Len(body.arr) |->
                      DecodeObject(body.arr[i], EmailFields).val]]
    ELSE [ok |-> FALSE, val |-> <<>>]

\* HashMap<String, String>
DecodeStringMap(body) ==
    IF body.kind = "object"
    THEN [ok |-> \A k \in DOMAIN body.obj : body.obj[k].type = "string",
          val |-> body.obj]
    ELSE [ok |-> FALSE, val |-> EmptyObj]

(***************************************************************************)
(* Results and errors                                                       *)
(***************************************************************************)
NoResult == [kind |-> "None", err |-> "", val |-> <<>>]
Ok(v) == [kind |-> "Ok", err |-> "", val |-> v]
Err(e, v) == [kind |-> "Err", err |-> e, val |-> v]
\* Result::unwrap on an Err: the calling thread panics, nothing is returned
Panic == [kind |-> "Panic", err |-> "", val |-> <<>>]

\* Error::from for the failures that try! converts (crate::error)
FromHyperError == Err("TransportError", <<>>)
FromIoError == Err("TransportError", <<>>)
FromDecoderError == Err("DecodeError", <<>>)
FromAuthErr(e) == Err("AuthProviderError", e)

\* hyper's StatusCode::is_success
is_success_3xx(status) == status \in 200..399

is_success(status) == status \in 200..299

StatusOk == 200

(***************************************************************************)
(* What the network may answer                                              *)
(***************************************************************************)
Statuses == {200, 201, 302, 404}

RECURSIVE Join(_)
Join(names) ==
    IF Len(names) = 0 THEN <<>>
    ELSE IF Len(names) = 1 THEN names[1]
    ELSE names[1] \o <<",">> \o Join(Tail(names))

ScopeNames == {s_user_email, s_user_emailx, s_user, s_repo}

ScopeStrings ==
    {Join(names) : names \in UNION {[1..n -> ScopeNames] : n \in 0..MaxScopes}}

\* bodies of the token endpoint: every choice of present / absent / wrongly
\* typed for the fields of the two shapes
TokenChoices ==
    [access_token : {Absent, JNum, JStr(s_abc)},
     scope : {Absent, JNum} \cup {JStr(sc) : sc \in ScopeStrings},
     token_type : {Absent, JStr(s_bearer)},
     error : {Absent, JNum, JStr(s_bad_code)},
     error_description : {Absent, JStr(s_text)},
     error_uri : {Absent, JStr(s_text)}]

Present(c) == {k \in DOMAIN c : c[k].type # "absent"}

TokenBodies == {ObjectBody([k \in Present(c) |-> c[k]]) : c \in TokenChoices}

SampleValue(t) ==
    IF t = "string" THEN JStr(s_text)
    ELSE IF t = "number" THEN JNum
    ELSE JBool

FullUser == [k \in DOMAIN UserFields |-> SampleValue(UserFields[k].type)]
Optionals == {k \in DOMAIN UserFields : UserFields[k].optional}

UserBodies ==
    {ObjectBody(FullUser),
     ObjectBody([k \in DOMAIN UserFields \ Optionals |-> FullUser[k]]),
     ObjectBody([k \in DOMAIN UserFields |->
                    IF k \in Optionals THEN JNull ELSE FullUser[k]]),
     ObjectBody([k \in DOMAIN UserFields \ {"login"} |-> FullUser[k]]),
     ObjectBody([FullUser EXCEPT !["id"] = JStr(s_text)])}

Email1 == [email |-> JStr(s_text), primary |-> JBool, verified |-> JBool]
EmailNoVerified == [email |-> JStr(s_text), primary |-> JBool]

EmailBodies ==
    {ArrayBody(<<>>), ArrayBody(<<Email1>>), ArrayBody(<<Email1, Email1>>),
     ArrayBody(<<Email1, EmailNoVerified>>)}

ApiErrorBodies ==
    {ObjectBody([message |-> JStr(s_text)]),
     ObjectBody([message |-> JStr(s_text), documentation_url |-> JStr(s_text)]),
     ObjectBody([message |-> JNum])}

Bodies ==
    TokenBodies \cup UserBodies \cup EmailBodies \cup ApiErrorBodies
        \cup {TextBody, UnreadableBody}

Responses == [status : Statuses, body : Bodies]
NoResponse == [status |-> 0, body |-> TextBody]

(***************************************************************************)
(* GitHubClient::authenticate, after http_post returned a response          *)
(***************************************************************************)
\* a plausible slip: the token is returned without the scope check
authenticate_body_noscope(encoded) ==
    LET ok == DecodeAuthOk(encoded)
        err == DecodeAuthErr(encoded)
    IN  IF ok.ok
        THEN [decoded |-> <<"AuthOk">>, result |-> Ok(ok.val.access_token.str)]
        ELSE [decoded |-> <<"AuthOk", "AuthErr">>,
              result |-> IF err.ok THEN FromAuthErr(err.val)
                         ELSE FromDecoderError]

\* a plausible slip: the error shape is tried before the granted-token shape
authenticate_body_errfirst(encoded) ==
    LET ok == DecodeAuthOk(encoded)
        err == DecodeAuthErr(encoded)
    IN  IF err.ok
        THEN [decoded |-> <<"AuthErr">>, result |-> FromAuthErr(err.val)]
        ELSE IF ok.ok
        THEN [decoded |-> <<"AuthErr", "AuthOk">>,
              result |-> IF has_scope(ok.val.scope.str, RequiredScope)
                         THEN Ok(ok.val.access_token.str)
                         ELSE Err("MissingScope", RequiredScope)]
        ELSE [decoded |-> <<"AuthErr", "AuthOk">>, result |-> FromDecoderError]

\* match json::decode(&encoded) { Ok(msg @ AuthOk { .. }) => .., Err(_) => .. }
authenticate_body(encoded) ==
    LET ok == DecodeAuthOk(encoded)
        err == DecodeAuthErr(encoded)
    IN  IF ok.ok
        THEN [decoded |-> <<"AuthOk">>,
              result |-> IF has_scope(ok.val.scope.str, RequiredScope)
                         THEN Ok(ok.val.access_token.str)
                         ELSE Err("MissingScope", RequiredScope)]
        ELSE [decoded |-> <<"AuthOk", "AuthErr">>,
              result |-> IF err.ok THEN FromAuthErr(err.val)
                         ELSE FromDecoderError]

authenticate_response(r) ==
    IF is_success(r.status)
    THEN IF r.body.kind = "unreadable"
         THEN [bodyRead |-> TRUE, decoded |-> <<>>, result |-> FromIoError]
         ELSE [bodyRead |-> TRUE,
               decoded |-> authenticate_body(r.body).decoded,
               result |-> authenticate_body(r.body).result]
    ELSE [bodyRead |-> FALSE, decoded |-> <<>>,
          result |-> Err("HTTP", r.status)]

(***************************************************************************)
(* GitHubClient::user and GitHubClient::emails, after http_get returned     *)
(***************************************************************************)
\* the error branch shared by both: HashMap decode, then Error::GitHubAPI
api_error(body) ==
    [bodyRead |-> TRUE, decoded |-> <<"HashMap">>,
     result |-> IF DecodeStringMap(body).ok
                THEN Err("GitHubAPI", DecodeStringMap(body).val)
                ELSE FromDecoderError]

\* a plausible slip: every success status is taken for OK
user_response_2xx(r) ==
    IF r.body.kind = "unreadable"
    THEN [bodyRead |-> TRUE, decoded |-> <<>>, result |-> FromIoError]
    ELSE IF ~is_success(r.status)
    THEN api_error(r.body)
    ELSE [bodyRead |-> TRUE, decoded |-> <<"User">>,
          result |-> IF DecodeUser(r.body).ok
                     THEN Ok(DecodeUser(r.body).val)
                     ELSE Panic]

user_response(r) ==
    IF r.body.kind = "unreadable"
    THEN [bodyRead |-> TRUE, decoded |-> <<>>, result |-> FromIoError]
    ELSE IF r.status # StatusOk
    THEN api_error(r.body)
    ELSE [bodyRead |-> TRUE, decoded |-> <<"User">>,
          result |-> IF DecodeUser(r.body).ok
                     THEN Ok(DecodeUser(r.body).val)
                     ELSE Panic]

emails_response(r) ==
    IF r.body.kind = "unreadable"
    THEN [bodyRead |-> TRUE, decoded |-> <<>>, result |-> FromIoError]
    ELSE IF r.status # StatusOk
    THEN api_error(r.body)
    ELSE [bodyRead |-> TRUE, decoded |-> <<"Vec<Email>">>,
          result |-> IF DecodeEmails(r.body).ok
                     THEN Ok(DecodeEmails(r.body).val)
                     ELSE FromDecoderError]

\* where the call stands once the handler has run to its end
AfterResponse(out) == IF out.result.kind = "Panic" THEN "panicked" ELSE "done"

(***************************************************************************)
(* Configuration and inputs                                                 *)
(***************************************************************************)
GitHubUrls == {"https://api.github.com", "https://github.example.com"}
ClientIds == {"id0"}
ClientSecrets == {"secret0"}
Codes == {"code1", "code2"}
Tokens == {"abc"}

\* GitHubClient::new
new(url, id, secret) ==
    [url |-> url, client_id |-> id, client_secret |-> secret]

NoRequest ==
    [method |-> "", base |-> "", path |-> "", query |-> <<>>,
     accept |-> "", bearer |-> "", user_agent |-> ""]

\* the Url and headers authenticate hands to http_post
authenticate_request(c, code) ==
    [method |-> "POST", base |-> "https://github.com",
     path |-> "/login/oauth/access_token",
     query |-> <<c.client_id, c.client_secret, code>>,
     accept |-> "application/json", bearer |-> "", user_agent |-> ""]

\* the Url and headers user / emails hand to http_get
http_get(c, path, token) ==
    [method |-> "GET", base |-> c.url, path |-> path, query |-> <<>>,
     accept |-> "application/json", bearer |-> token,
     user_agent |-> USER_AGENT]

\* a plausible slip: a failed send is tried again instead of returned
send_failed_retry(o) == [pc |-> "sending", result |-> NoResult]

\* try!(http_post(url)) / try!(http_get(url, token)) when send() fails
send_failed(o) == [pc |-> "done", result |-> FromHyperError]

(***************************************************************************)
(* The state machine of one caller using one client                         *)
(***************************************************************************)
HsIdle ==
    /\ hs_scope = <<>>
    /\ hs_grant = <<>>
    /\ hs_done = FALSE
    /\ hs_result = FALSE

CallIdle ==
    /\ pc = "idle"
    /\ op = "none"
    /\ arg = ""
    /\ request = NoRequest
    /\ wire = <<>>
    /\ rep = NoResponse
    /\ bodyRead = FALSE
    /\ decoded = <<>>
    /\ result = NoResult

Init ==
    /\ client \in {new(u, i, s) : u \in GitHubUrls, i \in ClientIds,
                                   s \in ClientSecrets}
    /\ CallIdle
    /\ HsIdle

HsVars == <<hs_scope, hs_grant, hs_done, hs_result>>

Begin(o, a, req) ==
    /\ pc = "idle"
    /\ op' = o
    /\ arg' = a
    /\ request' = req
    /\ pc' = "sending"
    /\ wire' = <<>>
    /\ rep' = NoResponse
    /\ bodyRead' = FALSE
    /\ decoded' = <<>>
    /\ result' = NoResult
    /\ UNCHANGED <<client, HsVars>>

\* authenticate up to the call of http_post
authenticate_call == \E code \in Codes :
    Begin("authenticate", code, authenticate_request(client, code))

\* user up to the call of http_get
user_call == \E token \in Tokens :
    Begin("user", token, http_get(client, "/user", token))

\* emails up to the call of http_get
emails_call == \E token \in Tokens :
    Begin("emails", token, http_get(client, "/user/emails", token))

\* hyper::Client::new().post(url) / .get(url) ... .send()
Send ==
    /\ pc = "sending"
    /\ Len(wire) < MaxSends
    /\ wire' = Append(wire, request)
    /\ pc' = "waiting"
    /\ UNCHANGED <<client, op, arg, request, rep, bodyRead, decoded, result,
                   HsVars>>

\* send() fails: no response, the error goes through try!
SendFails ==
    /\ pc = "waiting"
    /\ pc' = send_failed(op).pc
    /\ result' = send_failed(op).result
    /\ UNCHANGED <<client, op, arg, request, wire, rep, bodyRead, decoded,
                   HsVars>>

Finish(r, out) ==
    /\ rep' = r
    /\ bodyRead' = out.bodyRead
    /\ decoded' = out.decoded
    /\ result' = out.result
    /\ pc' = AfterResponse(out)
    /\ UNCHANGED <<client, op, arg, request, wire, HsVars>>

\* the rest of authenticate once the response is there
authenticate_receive ==
    /\ pc = "waiting"
    /\ op = "authenticate"
    /\ \E r \in Responses : Finish(r, authenticate_response(r))

\* the rest of user once the response is there
user_receive ==
    /\ pc = "waiting"
    /\ op = "user"
    /\ \E r \in Responses : Finish(r, user_response(r))

\* the rest of emails once the response is there
emails_receive ==
    /\ pc = "waiting"
    /\ op = "emails"
    /\ \E r \in Responses : Finish(r, emails_response(r))

\* the caller has the result; the client is ready for the next call
Return ==
    /\ pc = "done"
    /\ pc' = "idle"
    /\ UNCHANGED <<client, op, arg, request, wire, rep, bodyRead, decoded,
                   result, HsVars>>

Next ==
    \/ authenticate_call
    \/ user_call
    \/ emails_call
    \/ Send
    \/ SendFails
    \/ authenticate_receive
    \/ user_receive
    \/ emails_receive
    \/ Return

Spec == Init /\ [][Next]_vars

(***************************************************************************)
(* has_scope on its own: every scope and grant string up to MaxLen          *)
(***************************************************************************)
Alphabet == {"u", "x", ","}
Strings == UNION {[1..n -> Alphabet] : n \in 0..MaxLen}

InitScope ==
    /\ client = new("https://api.github.com", "id0", "secret0")
    /\ CallIdle
    /\ hs_scope \in Strings
    /\ hs_grant \in Strings
    /\ hs_done = FALSE
    /\ hs_result = FALSE

has_scope_call ==
    /\ ~hs_done
    /\ hs_result' = has_scope(hs_scope, hs_grant)
    /\ hs_done' = TRUE
    /\ UNCHANGED <<client, pc, op, arg, request, wire, rep, bodyRead, decoded,
                   result, hs_scope, hs_grant>>

NextScope == has_scope_call

SpecScope == InitScope /\ [][NextScope]_vars

(***************************************************************************)
(* Vocabulary of the properties: the shapes of a body and the matching of   *)
(* a scope, stated on the body itself and not through the decoders          *)
(***************************************************************************)
HasString(body, k) ==
    /\ body.kind = "object"
    /\ k \in DOMAIN body.obj
    /\ body.obj[k].type = "string"

GrantedTokenShape(body) ==
    /\ HasString(body, "access_token")
    /\ HasString(body, "scope")
    /\ HasString(body, "token_type")

ProviderErrorShape(body) ==
    /\ HasString(body, "error")
    /\ HasString(body, "error_description")
    /\ HasString(body, "error_uri")

StringMapShape(body) ==
    /\ body.kind = "object"
    /\ \A k \in DOMAIN body.obj : body.obj[k].type = "string"

Readable(body) == body.kind # "unreadable"

SuccessStatus(status) == status >= 200 /\ status < 300

\* g stands in s between two separators (or the ends of s) and holds none
ExactToken(s, g) ==
    /\ \A j \in 1..Len(g) : g[j] # ","
    /\ \E i \in 1..(Len(s) + 1) :
          /\ i + Len(g) - 1 <= Len(s)
          /\ \A j \in 1..Len(g) : s[i + j - 1] = g[j]
          /\ i = 1 \/ s[i - 1] = ","
          /\ i + Len(g) = Len(s) + 1 \/ s[i + Len(g)] = ","

\* g occurs somewhere in s
Contains(s, g) ==
    \E i \in 1..(Len(s) + 1) :
        /\ i + Len(g) - 1 <= Len(s)
        /\ \A j \in 1..Len(g) : s[i + j - 1] = g[j]

\* the call of operation o has ended and a response had arrived
Responded(o) ==
    /\ op = o
    /\ pc \in {"done", "panicked", "idle"}
    /\ rep.status \in Statuses

\* res is the error e carrying v
IsErr(res, e, v) ==
    /\ res.kind = "Err"
    /\ res.err = e
    /\ res.val = v

Scoped(r) ==
    /\ SuccessStatus(r.status)
    /\ GrantedTokenShape(r.body)
    /\ ExactToken(r.body.obj["scope"].str, s_user_email)

(***************************************************************************)
(* C1: authenticate returns a token exactly when the status is a success,   *)
(* the body has the granted-token shape and "user:email" is an element of   *)
(* its scope list; the token is then the body's access_token unchanged; a   *)
(* granted token without the scope gives MissingScope("user:email"), and    *)
(* in every other case an error and no token is returned.                   *)
(***************************************************************************)
C1_TokenOnlyWithScope ==
    Responded("authenticate") =>
        /\ result.kind = "Ok" <=> Scoped(rep)
        /\ Scoped(rep) => result.val = rep.body.obj["access_token"].str
        /\ ~Scoped(rep) => result.kind = "Err"
        /\ (SuccessStatus(rep.status) /\ GrantedTokenShape(rep.body)
                /\ ~Scoped(rep))
              => IsErr(result, "MissingScope", s_user_email)

C1_Witness ==
    /\ Responded("authenticate")
    /\ result.kind = "Ok"
    /\ result.val = s_abc
    /\ rep.body.obj["scope"].str = s_repo \o <<",">> \o s_user_email

(***************************************************************************)
(* C3: on a non-success status authenticate fails with HTTP(status) of      *)
(* exactly that status, and the body is neither read nor decoded, whatever  *)
(* it holds.                                                                *)
(***************************************************************************)
C3_HttpErrorWithoutBody ==
    (Responded("authenticate") /\ ~SuccessStatus(rep.status)) =>
        /\ IsErr(result, "HTTP", rep.status)
        /\ ~bodyRead
        /\ decoded = <<>>

C3_Witness ==
    /\ Responded("authenticate")
    /\ rep.status = 404
    /\ GrantedTokenShape(rep.body)
    /\ rep.body.obj["scope"].str = s_user_email
    /\ IsErr(result, "HTTP", 404)

(***************************************************************************)
(* C5: on a success status the body is classified by shape, granted-token   *)
(* first: the error shape is tried only when the granted-token decode       *)
(* failed, a body of the ProviderError shape then gives AuthProviderError   *)
(* with exactly its error, error_description and error_uri, and a body of   *)
(* the granted-token shape is never reported as AuthProviderError.          *)
(***************************************************************************)
C5_GrantedShapeFirst ==
    (Responded("authenticate") /\ SuccessStatus(rep.status)
        /\ Readable(rep.body)) =>
        /\ GrantedTokenShape(rep.body) =>
              /\ decoded = <<"AuthOk">>
              /\ result.err # "AuthProviderError"
        /\ ~GrantedTokenShape(rep.body) => decoded = <<"AuthOk", "AuthErr">>
        /\ (~GrantedTokenShape(rep.body) /\ ProviderErrorShape(rep.body)) =>
              IsErr(result, "AuthProviderError",
                    [error |-> rep.body.obj["error"],
                     error_description |-> rep.body.obj["error_description"],
                     error_uri |-> rep.body.obj["error_uri"]])
        /\ result.err = "AuthProviderError" =>
              ~GrantedTokenShape(rep.body) /\ ProviderErrorShape(rep.body)

C5_Witness ==
    /\ Responded("authenticate")
    /\ rep.status = 200
    /\ ProviderErrorShape(rep.body)
    /\ HasString(rep.body, "access_token")
    /\ ~GrantedTokenShape(rep.body)
    /\ result.err = "AuthProviderError"
    /\ result.val["error"] = JStr(s_bad_code)

(***************************************************************************)
(* C6: a success-status body that has neither the granted-token nor the     *)
(* ProviderError shape makes authenticate fail with DecodeError.            *)
(***************************************************************************)
C6_NeitherShapeIsDecodeError ==
    (Responded("authenticate") /\ SuccessStatus(rep.status)
        /\ Readable(rep.body)
        /\ ~GrantedTokenShape(rep.body) /\ ~ProviderErrorShape(rep.body)) =>
        IsErr(result, "DecodeError", <<>>)

C6_Witness ==
    /\ Responded("authenticate")
    /\ rep.status = 201
    /\ HasString(rep.body, "access_token")
    /\ HasString(rep.body, "error")
    /\ ~GrantedTokenShape(rep.body)
    /\ ~ProviderErrorShape(rep.body)
    /\ IsErr(result, "DecodeError", <<>>)

(***************************************************************************)
(* C7: for user and emails a status other than OK never gives a User or a   *)
(* list of Email; the body is decoded as a string-to-string map, the call   *)
(* fails with GitHubAPI carrying exactly that map, or with DecodeError when *)
(* the body is not such a map.                                              *)
(***************************************************************************)
C7_NonOkIsApiError ==
    ((Responded("user") \/ Responded("emails")) /\ rep.status # 200) =>
        /\ result.kind = "Err"
        /\ Readable(rep.body) =>
              /\ decoded = <<"HashMap">>
              /\ IF StringMapShape(rep.body)
                 THEN IsErr(result, "GitHubAPI", rep.body.obj)
                 ELSE IsErr(result, "DecodeError", <<>>)

C7_Witness ==
    /\ Responded("user")
    /\ rep.status = 201
    /\ rep.body = ObjectBody([message |-> JStr(s_text),
                              documentation_url |-> JStr(s_text)])
    /\ result.err = "GitHubAPI"
    /\ DOMAIN result.val = {"message", "documentation_url"}

(***************************************************************************)
(* C10: no call sends more than one request, so an authorization code is    *)
(* submitted at most once; once a call has failed nothing more is sent in   *)
(* it and the failure stays the result the caller gets.                     *)
(***************************************************************************)
C10_NoRetry ==
    /\ [](Len(wire) <= 1)
    /\ [][(result.kind = "Err") =>
            /\ Len(wire') <= Len(wire)
            /\ pc = "done" => result' = result]_vars

C10_Witness ==
    /\ pc = "idle"
    /\ op = "authenticate"
    /\ IsErr(result, "TransportError", <<>>)
    /\ Len(wire) = 1
    /\ wire[1].query[3] = arg

(***************************************************************************)
(* C4: has_scope(g) holds exactly when some element of the scope string     *)
(* split on "," equals g; a scope that only contains g as a prefix or a     *)
(* substring does not match, wherever g stands and whatever else is there.  *)
(***************************************************************************)
C4_ExactTokenMatch ==
    hs_done => (hs_result <=> ExactToken(hs_scope, hs_grant))

C4_Witness ==
    /\ hs_done
    /\ ~hs_result
    /\ Len(hs_grant) > 0
    /\ Contains(hs_scope, hs_grant)

(***************************************************************************)
(* C2: user answers an OK status whose body does not decode as a User with  *)
(* a DecodeError returned to the caller; the call does not crash.           *)
(***************************************************************************)
C2_UserDecodeErrorReturned ==
    (Responded("user") /\ rep.status = 200 /\ Readable(rep.body)
        /\ ~DecodeUser(rep.body).ok) =>
        /\ pc # "panicked"
        /\ IsErr(result, "DecodeError", <<>>)

(***************************************************************************)
(* C8: the token-exchange request of authenticate is a POST to              *)
(* {base_url}/login/oauth/access_token with base_url the URL the client was *)
(* built with, the base user and emails call too.                           *)
(***************************************************************************)
C8_TokenExchangeAtConfiguredBase ==
    \A i \in 1..Len(wire) :
        /\ wire[i].base = client.url
        /\ op = "authenticate" =>
              /\ wire[i].method = "POST"
              /\ wire[i].path = "/login/oauth/access_token"

(***************************************************************************)
(* C9: emails has the contract of user: for every status and every way the  *)
(* body decodes (as the resource, as the string map, as neither, or not     *)
(* readable) both calls end in the same kind of outcome.                    *)
(***************************************************************************)
OutcomeKind(res) ==
    IF res.kind = "Ok" THEN "success"
    ELSE IF res.kind = "Err" THEN res.err
    ELSE "crash"

BodyClass(o, body) ==
    <<Readable(body),
      IF o = "user" THEN DecodeUser(body).ok ELSE DecodeEmails(body).ok,
      DecodeStringMap(body).ok>>

C9_EmailsSameContractAsUser ==
    Responded("user") =>
        \A b \in UserBodies \cup EmailBodies \cup ApiErrorBodies
                     \cup {TextBody, UnreadableBody} :
            BodyClass("emails", b) = BodyClass("user", rep.body) =>
                OutcomeKind(emails_response([status |-> rep.status,
                                             body |-> b]).result)
                    = OutcomeKind(result)

====
